---- MODULE Spec2Model ----
(***************************************************************************)
(* fix_use_client.py: the one-off repair script that walks a source tree,  *)
(* reads every *.js entry that glob finds and, when the first line holds   *)
(* `export const dynamic` and the second `"use client"`, rewrites the file *)
(* with the two lines exchanged.                                           *)
(*                                                                         *)
(* A file's content is a sequence of characters.  Two characters stand for *)
(* whole literals of the source: "D" for the text `export const dynamic`   *)
(* and "U" for the text `"use client"` (neither literal begins or ends     *)
(* with whitespace, and neither overlaps the other).  "B" is a byte that   *)
(* is not valid UTF-8.  A name is a sequence of characters and a path a    *)
(* sequence of names, relative to the directory the script runs in.        *)
(***************************************************************************)
EXTENDS Naturals, Sequences, FiniteSets

VARIABLES
    pc,       \* where the script is
    cwd,      \* the working directory of the process: "start" | "root"
    linesep,  \* os.linesep of the platform the script runs on
    tree,     \* the directory tree: path -> "file" | "dir"
    disk,     \* the content of every regular file
    files,    \* the list glob returned
    i,        \* the position of the for loop in files
    lines,    \* the line buffer of the file being processed
    count,    \* the fix counter
    out,      \* what was printed
    run,      \* which run of the script this is
    disk0,    \* history: the content of every file when this run started
    err,      \* history: the error each path raised in this run
    openedW,  \* history: the paths opened for writing in this run
    wrote,    \* history: the paths whose write-back completed in this run
    reads,    \* history: how often each path was opened for reading in this run
    prev      \* history: how the previous run ended

vars == <<pc, cwd, linesep, tree, disk, files, i, lines, count, out, run,
          disk0, err, openedW, wrote, reads, prev>>

(************************* bounds of the model *****************************)
\* lines after the first two that a generated file may have
MaxRest == 1
\* how many times in a row the script is run
MaxRuns == 2

(***************************** characters **********************************)
LF == "\n"
CR == "\r"
SP == " "
BAD == "B"
\* what str.strip() removes
Whitespace == {SP, LF, CR}
\* the literal 'export const dynamic'
EXPORT_CONST_DYNAMIC == <<"D">>
\* the literal '"use client"'
USE_CLIENT == <<"U">>

(***************************** text I/O ************************************)
\* decoding as UTF-8 raises on an invalid byte
Decodable(bytes) == \A k \in 1..Len(bytes) : bytes[k] # BAD

\* reading in text mode with newline=None: "\r\n" and "\r" become "\n"
RECURSIVE TranslateRead(_)
TranslateRead(s) ==
    IF s = <<>> THEN <<>>
    ELSE IF s[1] = CR
         THEN IF Len(s) >= 2 /\ s[2] = LF
              THEN <<LF>> \o TranslateRead(SubSeq(s, 3, Len(s)))
              ELSE <<LF>> \o TranslateRead(Tail(s))
         ELSE <<s[1]>> \o TranslateRead(Tail(s))

\* readlines(): the text cut after every "\n", the terminator kept
RECURSIVE SplitLines(_, _)
SplitLines(s, cur) ==
    IF s = <<>> THEN (IF cur = <<>> THEN <<>> ELSE <<cur>>)
    ELSE IF s[1] = LF
         THEN <<Append(cur, LF)>> \o SplitLines(Tail(s), <<>>)
         ELSE SplitLines(Tail(s), Append(cur, s[1]))

ReadLines(bytes) == SplitLines(TranslateRead(bytes), <<>>)

RECURSIVE LStrip(_)
LStrip(s) == IF s # <<>> /\ s[1] \in Whitespace THEN LStrip(Tail(s)) ELSE s

RECURSIVE RStrip(_)
RStrip(s) ==
    IF s # <<>> /\ s[Len(s)] \in Whitespace
    THEN RStrip(SubSeq(s, 1, Len(s) - 1))
    ELSE s

\* str.strip()
Strip(s) == RStrip(LStrip(s))

\* pat in s
Contains(pat, s) ==
    \E k \in 0..(Len(s) - Len(pat)) : SubSeq(s, k + 1, k + Len(pat)) = pat

\* the slip of `or` for `and` in the test of line 18
NeedsSwapAny(ls) ==
    /\ Len(ls) >= 2
    /\ \/ Contains(EXPORT_CONST_DYNAMIC, Strip(ls[1]))
       \/ Contains(USE_CLIENT, Strip(ls[2]))

\* the test of lines 14-18
NeedsSwap(ls) ==
    /\ Len(ls) >= 2
    /\ Contains(EXPORT_CONST_DYNAMIC, Strip(ls[1]))
    /\ Contains(USE_CLIENT, Strip(ls[2]))

\* the slip of a swap that leaves the lines in place
SwapLinesNot(ls) == ls

\* lines[0], lines[1] = lines[1], lines[0]
SwapLines(ls) == [ls EXCEPT ![1] = ls[2], ![2] = ls[1]]

RECURSIVE Flatten(_)
Flatten(ls) == IF ls = <<>> THEN <<>> ELSE Head(ls) \o Flatten(Tail(ls))

\* writing in text mode with newline=None: "\n" becomes os.linesep
RECURSIVE TranslateWrite(_, _)
TranslateWrite(s, sep) ==
    IF s = <<>> THEN <<>>
    ELSE (IF s[1] = LF THEN sep ELSE <<s[1]>>) \o TranslateWrite(Tail(s), sep)

\* writelines(lines): what reaches the file when nothing fails
WriteData(ls, sep) == TranslateWrite(Flatten(ls), sep)

(***************************** the tree ************************************)
JS == <<".", "j", "s">>
A_JS == <<<<"a", ".", "j", "s">>>>
B_JS == <<<<"d">>, <<"b", ".", "j", "s">>>>
C_JS == <<<<"d">>, <<"e">>, <<"c", ".", "j", "s">>>>
H_JS == <<<<".", "h", ".", "j", "s">>>>
K_JS == <<<<".", "g">>, <<"k", ".", "j", "s">>>>
T_TS == <<<<"d">>, <<"t", ".", "t", "s">>>>
M_JS == <<<<"m", ".", "j", "s">>>>
N_JS == <<<<"m", ".", "j", "s">>, <<"n", ".", "j", "s">>>>
D_DIR == <<<<"d">>>>
E_DIR == <<<<"d">>, <<"e">>>>
G_DIR == <<<<".", "g">>>>

Basename(p) == p[Len(p)]
EndsWith(name, suffix) ==
    /\ Len(name) >= Len(suffix)
    /\ SubSeq(name, Len(name) - Len(suffix) + 1, Len(name)) = suffix
\* glob's _ishidden
IsHidden(name) == name # <<>> /\ name[1] = "."
\* fnmatch of a name against '*.js'
FnMatchJs(name) == EndsWith(name, JS)

Parent(p) == SubSeq(p, 1, Len(p) - 1)
IsDir(t, n) == n = <<>> \/ (n \in DOMAIN t /\ t[n] = "dir")
\* os.scandir(dir): the entries of directory dir
Children(t, dir) == {n \in DOMAIN t : Parent(n) = dir}

\* the slip of a glob without recursive=True
RListDirFlat(t, dir) == {dir}

\* glob's _rlistdir: dir and every directory below it that is not hidden
RECURSIVE RListDir(_, _)
RListDir(t, dir) ==
    {dir} \cup UNION {RListDir(t, c) :
                        c \in {n \in Children(t, dir) :
                                 IsDir(t, n) /\ ~IsHidden(Basename(n))}}

\* glob.glob('**/*.js', recursive=True)
Glob(t) ==
    UNION {{n \in Children(t, d) :
              FnMatchJs(Basename(n)) /\ ~IsHidden(Basename(n))} :
           d \in RListDir(t, <<>>)}

\* the orders in which the entries of S may be listed
RECURSIVE Perms(_)
Perms(S) ==
    IF S = {} THEN {<<>>}
    ELSE UNION {{<<x>> \o q : q \in Perms(S \ {x})} : x \in S}

Range(s) == {s[k] : k \in 1..Len(s)}
RegularFiles(t) == {p \in DOMAIN t : t[p] = "file"}

(***************************** output **************************************)
FixedLine(p) == [k |-> "Fixed", p |-> p, n |-> 0]
ErrorLine(p) == [k |-> "Error", p |-> p, n |-> 0]
TotalLine(c) == [k |-> "Total", p |-> <<>>, n |-> c]
NumLines(o, kind) == Cardinality({j \in 1..Len(o) : o[j].k = kind})
LinesFor(o, kind, p) == {j \in 1..Len(o) : o[j].k = kind /\ o[j].p = p}

(***************************** inputs **************************************)
Terminators == {<<LF>>, <<CR, LF>>}
\* what a first or second line may hold, terminator apart
Bodies == {<<"D">>, <<"U">>, <<"D", "U">>, <<"x">>, <<SP, "D", SP>>, <<"U", SP>>}
\* up to two leading lines, and after two of them up to MaxRest more
BodySeqs ==
    UNION {[1..n -> Bodies] : n \in 0..2}
    \cup {h \o [k \in 1..r |-> <<"x">>] : h \in [1..2 -> Bodies], r \in 1..MaxRest}
\* the file with lines bs, each ended by term, the last one only if final
MkContent(bs, term, final) ==
    Flatten([k \in 1..Len(bs) |->
               bs[k] \o (IF k < Len(bs) \/ final THEN term ELSE <<>>)])
RichContents ==
    {MkContent(bs, t, f) : bs \in BodySeqs, t \in Terminators, f \in BOOLEAN}
    \cup {<<BAD>>}
FewContents ==
    { <<"D", LF, "U", LF, "x", LF>>,
      <<"D", "U", CR, LF, "D", "U", CR, LF>>,
      <<"U", LF, "D", LF>>,
      <<"x", LF>>,
      <<BAD, LF>> }
Universe ==
    [p \in {A_JS, D_DIR, E_DIR, C_JS, T_TS, H_JS, G_DIR, K_JS, M_JS, N_JS} |->
       IF p \in {D_DIR, E_DIR, G_DIR, M_JS} THEN "dir" ELSE "file"]
\* a tree holds the directory of each of its entries
IsTree(S) == \A p \in S : Len(p) = 1 \/ Parent(p) \in S

(***************************** the script **********************************)
File == files[i]

\* the state every run starts in
Fresh ==
    /\ pc = "main"
    /\ cwd = "start"
    /\ files = <<>>
    /\ i = 1
    /\ lines = <<>>
    /\ count = 0
    /\ out = <<>>
    /\ disk0 = disk
    /\ err = [p \in DOMAIN tree |-> "none"]
    /\ openedW = {}
    /\ wrote = {}
    /\ reads = [p \in DOMAIN tree |-> 0]

InitCommon ==
    /\ run = 1
    /\ prev = [ran |-> FALSE, count |-> 0]
    /\ linesep \in Terminators
    /\ Fresh

\* one file, of any content
InitLines ==
    /\ tree = [p \in {A_JS} |-> "file"]
    /\ disk \in [{A_JS} -> RichContents]
    /\ InitCommon

\* three files at three depths, of a few contents
Init ==
    /\ tree = [p \in {A_JS, D_DIR, B_JS, E_DIR, C_JS} |->
                 IF p \in {D_DIR, E_DIR} THEN "dir" ELSE "file"]
    /\ disk \in [{A_JS, B_JS, C_JS} -> FewContents]
    /\ InitCommon

\* any tree of the universe, one content per file
InitTree ==
    /\ \E S \in SUBSET DOMAIN Universe :
          IsTree(S) /\ tree = [p \in S |-> Universe[p]]
    /\ disk = [p \in RegularFiles(tree) |->
                 IF p \in {A_JS, H_JS} THEN <<"D", LF, "U", LF>>
                 ELSE IF p = C_JS THEN <<BAD, LF>>
                 ELSE <<"x", LF>>]
    /\ InitCommon

\* the slip of swallowing the exception of os.chdir
ChdirFailIgnored == "glob"
\* line 33: the exception of os.chdir is not caught
ChdirFailPc == "aborted"

\* the slip of a try around the loop instead of inside it
AfterErrorBreak(idx, n) == n + 1
\* lines 8, 27-28: the except clause is inside the loop
AfterError(idx, n) == idx + 1

\* the slip of advancing past a file
AfterSkipTwice(idx) == idx + 2
\* lines 8, 14, 18: nothing to do, on to the next file
AfterSkip(idx) == idx + 1

\* the slip of printing the Fixed line twice
FixedOutputTwice(o, p) == Append(Append(o, FixedLine(p)), FixedLine(p))
\* line 25
FixedOutput(o, p) == Append(o, FixedLine(p))

\* the slip of leaving out count += 1
CountAfterFixNot(c) == c
\* line 26
CountAfterFix(c) == c + 1

\* line 33, os.chdir succeeds
Chdir ==
    /\ pc = "main"
    /\ cwd' = "root"
    /\ pc' = "glob"
    /\ UNCHANGED <<linesep, tree, disk, files, i, lines, count, out, run,
                   disk0, err, openedW, wrote, reads, prev>>

\* line 33, os.chdir raises
ChdirFail ==
    /\ pc = "main"
    /\ pc' = ChdirFailPc
    /\ UNCHANGED <<cwd, linesep, tree, disk, files, i, lines, count, out, run,
                   disk0, err, openedW, wrote, reads, prev>>

\* lines 5-6
GlobFiles ==
    /\ pc = "glob"
    /\ files' \in Perms(Glob(tree))
    /\ count' = 0
    /\ i' = 1
    /\ pc' = "for"
    /\ UNCHANGED <<cwd, linesep, tree, disk, lines, out, run,
                   disk0, err, openedW, wrote, reads, prev>>

\* lines 27-28: the error of kind is printed and the loop goes on
Except(kind) ==
    /\ out' = Append(out, ErrorLine(File))
    /\ err' = [err EXCEPT ![File] = kind]
    /\ i' = AfterError(i, Len(files))
    /\ lines' = <<>>
    /\ pc' = "for"

\* line 10 raises: a directory, or a file that may not be read
OpenReadFail ==
    /\ pc = "for" /\ i <= Len(files)
    /\ reads' = [reads EXCEPT ![File] = @ + 1]
    /\ Except("read")
    /\ UNCHANGED <<cwd, linesep, tree, disk, files, count, run,
                   disk0, openedW, wrote, prev>>

\* line 11 raises: the content is not UTF-8
DecodeFail ==
    /\ pc = "for" /\ i <= Len(files)
    /\ tree[File] = "file" /\ ~Decodable(disk[File])
    /\ reads' = [reads EXCEPT ![File] = @ + 1]
    /\ Except("decode")
    /\ UNCHANGED <<cwd, linesep, tree, disk, files, count, run,
                   disk0, openedW, wrote, prev>>

\* lines 10-11
ReadFile ==
    /\ pc = "for" /\ i <= Len(files)
    /\ tree[File] = "file" /\ Decodable(disk[File])
    /\ reads' = [reads EXCEPT ![File] = @ + 1]
    /\ lines' = ReadLines(disk[File])
    /\ pc' = "check"
    /\ UNCHANGED <<cwd, linesep, tree, disk, files, i, count, out, run,
                   disk0, err, openedW, wrote, prev>>

\* lines 14-18, the test fails
Skip ==
    /\ pc = "check" /\ ~NeedsSwap(lines)
    /\ i' = AfterSkip(i)
    /\ lines' = <<>>
    /\ pc' = "for"
    /\ UNCHANGED <<cwd, linesep, tree, disk, files, count, out, run,
                   disk0, err, openedW, wrote, reads, prev>>

\* lines 14-20, the test holds
Swap ==
    /\ pc = "check" /\ NeedsSwap(lines)
    /\ lines' = SwapLines(lines)
    /\ pc' = "open"
    /\ UNCHANGED <<cwd, linesep, tree, disk, files, i, count, out, run,
                   disk0, err, openedW, wrote, reads, prev>>

\* line 22: open(file, 'w') truncates the file
OpenWrite ==
    /\ pc = "open"
    /\ disk' = [disk EXCEPT ![File] = <<>>]
    /\ openedW' = openedW \cup {File}
    /\ pc' = "write"
    /\ UNCHANGED <<cwd, linesep, tree, files, i, lines, count, out, run,
                   disk0, err, wrote, reads, prev>>

\* line 22 raises: the file may not be written, and is not truncated
OpenWriteFail ==
    /\ pc = "open"
    /\ Except("openw")
    /\ UNCHANGED <<cwd, linesep, tree, disk, files, count, run,
                   disk0, openedW, wrote, reads, prev>>

\* line 23 and the close of the with block
WriteLines ==
    /\ pc = "write"
    /\ disk' = [disk EXCEPT ![File] = WriteData(lines, linesep)]
    /\ wrote' = wrote \cup {File}
    /\ pc' = "print"
    /\ UNCHANGED <<cwd, linesep, tree, files, i, lines, count, out, run,
                   disk0, err, openedW, reads, prev>>

\* line 23 or the close raises: only a part of the data reached the file
WriteFail ==
    /\ pc = "write"
    /\ \E n \in 0..(Len(WriteData(lines, linesep)) - 1) :
          disk' = [disk EXCEPT ![File] = SubSeq(WriteData(lines, linesep), 1, n)]
    /\ Except("write")
    /\ UNCHANGED <<cwd, linesep, tree, files, count, run,
                   disk0, openedW, wrote, reads, prev>>

\* line 25
PrintFixed ==
    /\ pc = "print"
    /\ out' = FixedOutput(out, File)
    /\ pc' = "count"
    /\ UNCHANGED <<cwd, linesep, tree, disk, files, i, lines, count, run,
                   disk0, err, openedW, wrote, reads, prev>>

\* line 26, and on to the next file
Incr ==
    /\ pc = "count"
    /\ count' = CountAfterFix(count)
    /\ i' = i + 1
    /\ lines' = <<>>
    /\ pc' = "for"
    /\ UNCHANGED <<cwd, linesep, tree, disk, files, out, run,
                   disk0, err, openedW, wrote, reads, prev>>

\* line 30
PrintTotal ==
    /\ pc = "for" /\ i > Len(files)
    /\ out' = Append(out, TotalLine(count))
    /\ pc' = "done"
    /\ UNCHANGED <<cwd, linesep, tree, disk, files, i, lines, count, run,
                   disk0, err, openedW, wrote, reads, prev>>

\* the script is started again after a run that printed no error
Rerun ==
    /\ pc = "done" /\ run < MaxRuns
    /\ NumLines(out, "Error") = 0
    /\ run' = run + 1
    /\ prev' = [ran |-> TRUE, count |-> count]
    /\ pc' = "main"
    /\ cwd' = "start"
    /\ files' = <<>>
    /\ i' = 1
    /\ lines' = <<>>
    /\ count' = 0
    /\ out' = <<>>
    /\ disk0' = disk
    /\ err' = [p \in DOMAIN tree |-> "none"]
    /\ openedW' = {}
    /\ wrote' = {}
    /\ reads' = [p \in DOMAIN tree |-> 0]
    /\ UNCHANGED <<linesep, tree, disk>>

Next ==
    \/ Chdir \/ ChdirFail \/ GlobFiles
    \/ OpenReadFail \/ DecodeFail \/ ReadFile
    \/ Skip \/ Swap
    \/ OpenWrite \/ OpenWriteFail \/ WriteLines \/ WriteFail
    \/ PrintFixed \/ Incr \/ PrintTotal
    \/ Rerun

Spec == Init /\ [][Next]_vars
SpecLines == InitLines /\ [][Next]_vars
SpecTree == InitTree /\ [][Next]_vars
\* the interpreter runs the script to its end: a step that can be taken is taken
FairSpec == InitTree /\ [][Next]_vars /\ WF_vars(Next)

(***************************** the claims **********************************)
\* the bytes cut after every terminator ("\r\n", "\n" or "\r"), nothing translated
RECURSIVE RawLines(_, _)
RawLines(s, cur) ==
    IF s = <<>> THEN (IF cur = <<>> THEN <<>> ELSE <<cur>>)
    ELSE IF s[1] = CR /\ Len(s) >= 2 /\ s[2] = LF
         THEN <<cur \o <<CR, LF>>>> \o RawLines(SubSeq(s, 3, Len(s)), <<>>)
    ELSE IF s[1] \in {CR, LF}
         THEN <<Append(cur, s[1])>> \o RawLines(Tail(s), <<>>)
    ELSE RawLines(Tail(s), Append(cur, s[1]))

\* the lines ls, of which there are two or more, with the first two exchanged
Exchanged(ls) == <<ls[2], ls[1]>> \o SubSeq(ls, 3, Len(ls))

\* content bytes with its first two lines exchanged and every byte kept
FirstTwoExchanged(bytes) ==
    IF Len(RawLines(bytes, <<>>)) >= 2
    THEN Flatten(Exchanged(RawLines(bytes, <<>>)))
    ELSE bytes

\* the swap condition as the claims word it: at least two lines, stripped line
\* 0 contains `export const dynamic`, stripped line 1 contains `"use client"`
MeetsCondition(ls) ==
    /\ Len(ls) >= 2
    /\ Contains(EXPORT_CONST_DYNAMIC, Strip(ls[1]))
    /\ Contains(USE_CLIENT, Strip(ls[2]))

\* the file at p holds text that meets the swap condition
Matches(p) ==
    /\ p \in DOMAIN disk0
    /\ Decodable(disk0[p])
    /\ MeetsCondition(ReadLines(disk0[p]))

NoError == NumLines(out, "Error") = 0

\* C1 (as claimed), for the states after a run in which nothing raised: every
\* file is byte for byte what it was before the run, or that with exactly its
\* first two lines exchanged.
C1_UntouchedOrSwapped ==
    (pc = "done" /\ NoError) =>
        \A p \in DOMAIN disk :
            disk[p] = disk0[p] \/ disk[p] = FirstTwoExchanged(disk0[p])

\* C2 (as claimed): a file of at least two lines that meets the test and whose
\* processing raised nothing has, after the run, the old line 1 as its line 0,
\* the old line 0 as its line 1, every later line unchanged and as many lines
\* as before.
C2_SwapsFirstTwoLines ==
    \A p \in DOMAIN disk :
        (pc = "done" /\ reads[p] = 1 /\ err[p] = "none" /\ Matches(p)) =>
            /\ Len(ReadLines(disk[p])) = Len(ReadLines(disk0[p]))
            /\ ReadLines(disk[p])[1] = ReadLines(disk0[p])[2]
            /\ ReadLines(disk[p])[2] = ReadLines(disk0[p])[1]
            /\ \A k \in 3..Len(ReadLines(disk0[p])) :
                   ReadLines(disk[p])[k] = ReadLines(disk0[p])[k]

(* C3 *)
\* the Error and the Fixed lines printed for p
ErrorsFor(p) == Cardinality(LinesFor(out, "Error", p))
FixedFor(p) == Cardinality(LinesFor(out, "Fixed", p))

\* C3 (as claimed): a file of fewer than two lines, or whose line 0 lacks
\* `export const dynamic`, or whose line 1 lacks `"use client"`, is left
\* byte-identical, is never opened for writing, is not counted and gets
\* neither a Fixed line nor an error line.
C3_NonMatchingSilent ==
    \A p \in DOMAIN disk :
        (Decodable(disk0[p]) /\ ~MeetsCondition(ReadLines(disk0[p]))) =>
            /\ disk[p] = disk0[p]
            /\ p \notin openedW
            /\ FixedFor(p) = 0
            /\ ErrorsFor(p) = 0

\* C3 (amended): a file that does not meet the test is left byte-identical, is
\* never opened for writing, is not counted and gets no Fixed line; it gets no
\* error line when it is opened and decoded without error, and exactly one
\* when opening or decoding it raises.
C3_NonMatchingUntouched ==
    \A p \in DOMAIN disk :
        ~Matches(p) =>
            /\ disk[p] = disk0[p]
            /\ p \notin openedW
            /\ FixedFor(p) = 0
            /\ count <= Cardinality({q \in DOMAIN disk : q # p})
            /\ err[p] \in {"none", "read", "decode"}
            /\ ErrorsFor(p) = (IF err[p] = "none" THEN 0 ELSE 1)
            /\ (Decodable(disk0[p]) => err[p] # "decode")

\* a two-line file with `export const dynamic` in line 0 and no `"use client"`
\* in line 1 was read and skipped
C3_Witness ==
    /\ pc = "done"
    /\ \E p \in DOMAIN disk :
        /\ reads[p] = 1 /\ err[p] = "none"
        /\ Decodable(disk0[p])
        /\ Len(ReadLines(disk0[p])) >= 2
        /\ Contains(EXPORT_CONST_DYNAMIC, ReadLines(disk0[p])[1])
        /\ ~MeetsCondition(ReadLines(disk0[p]))

(* C4 *)
Changed == {p \in DOMAIN disk : disk[p] # disk0[p]}
\* the files that met the test and whose processing raised nothing
Repaired == {p \in DOMAIN disk : reads[p] = 1 /\ err[p] = "none" /\ Matches(p)}

\* C4 (as claimed): at the summary the count is the number of files whose
\* content differs from their content before the run.
C4_CountIsChanged == pc = "done" => count = Cardinality(Changed)

\* C4 (amended): at the summary the count is the number of files that met the
\* test and were written back without error; a file whose content differs is
\* one of them or one whose write-back raised.
C4_CountIsRepaired ==
    pc = "done" =>
        /\ count = Cardinality(Repaired)
        /\ \A p \in Changed : p \in Repaired \/ err[p] = "write"

\* two files were repaired and the write-back of a third left it changed
C4_Witness ==
    /\ pc = "done"
    /\ count = 2
    /\ \E p \in Changed : err[p] = "write"

(* C5 *)
\* what an error-free processing makes of content bytes
Processed(bytes) ==
    IF Decodable(bytes) /\ MeetsCondition(ReadLines(bytes))
    THEN WriteData(Exchanged(ReadLines(bytes)), linesep)
    ELSE bytes

\* C5: a file whose processing raises gets exactly one error line and is not
\* counted; every file of the enumeration is still processed; and every other
\* file ends, and is counted, as its own content alone decides.
C5_ErrorIsolated ==
    /\ \A p \in DOMAIN tree :
           /\ ErrorsFor(p) = (IF err[p] = "none" THEN 0 ELSE 1)
           /\ (err[p] # "none" => FixedFor(p) = 0 /\ p \notin wrote)
    /\ pc = "done" =>
           /\ \A k \in 1..Len(files) : reads[files[k]] = 1
           /\ \A p \in DOMAIN disk :
                  (p \in Range(files) /\ err[p] = "none") =>
                      /\ disk[p] = Processed(disk0[p])
                      /\ FixedFor(p) = (IF Matches(p) THEN 1 ELSE 0)
           /\ count = Cardinality({p \in Range(files) :
                                     err[p] = "none" /\ Matches(p)})

\* the first file raised, and a later one was repaired and counted
C5_Witness ==
    /\ pc = "done"
    /\ Len(files) = 3
    /\ err[files[1]] # "none"
    /\ files[3] \in wrote
    /\ count >= 1

(* C6 *)
\* C6: when entering the root directory fails the run is over at once: no
\* file was enumerated, read or written and nothing was printed.
C6_AbortsOnChdirFailure ==
    (cwd = "start" /\ pc # "main") =>
        /\ pc = "aborted"
        /\ files = <<>>
        /\ out = <<>>
        /\ disk = disk0
        /\ openedW = {}
        /\ \A p \in DOMAIN tree : reads[p] = 0

\* the run was aborted in a tree that holds a file to repair
C6_Witness == pc = "aborted" /\ \E p \in DOMAIN disk : Matches(p)

(* C7 *)
\* C7: a Fixed line is printed for a file only after its write-back completed,
\* at most once, and for every repaired file once the loop has moved on; the
\* summary shows a count equal to the number of Fixed lines.
C7_FixedLines ==
    /\ \A p \in DOMAIN tree :
           /\ FixedFor(p) <= 1
           /\ (FixedFor(p) = 1 => p \in wrote)
           /\ ((p \in wrote /\ pc \in {"for", "done"}) => FixedFor(p) = 1)
    /\ pc = "done" =>
           /\ out[Len(out)] = TotalLine(NumLines(out, "Fixed"))
           /\ NumLines(out, "Fixed") = Cardinality(wrote)

\* two files repaired, one skipped: two Fixed lines and a total of 2
C7_Witness ==
    /\ pc = "done"
    /\ NumLines(out, "Fixed") = 2
    /\ NoError
    /\ out[Len(out)].n = 2

(* C8 *)
\* the summary is the one last line of the output
SummaryLast ==
    /\ out # <<>>
    /\ out[Len(out)] = TotalLine(count)
    /\ NumLines(out, "Total") = 1

\* C8: once the root directory is entered, whatever raises, the run comes to
\* its summary; there every discovered entry has been processed exactly once
\* and the summary is the one last line printed; before it no summary is
\* printed, and a run that does not reach it is one aborted at the root.
C8_ReachesSummary ==
    /\ [](pc = "done" =>
            /\ \A k \in 1..Len(files) : reads[files[k]] = 1
            /\ Cardinality(Range(files)) = Len(files)
            /\ SummaryLast)
    /\ [](pc # "done" => NumLines(out, "Total") = 0)
    /\ [](\A p \in DOMAIN tree : reads[p] <= 1)
    /\ ((cwd = "root") ~> (pc = "done"))
    /\ ((pc = "main") ~> (pc = "done" \/ (pc = "aborted" /\ cwd = "start")))

\* the summary was reached after all three files raised
C8_Witness ==
    /\ pc = "done"
    /\ Len(files) = 3
    /\ NumLines(out, "Error") = 3

(* C9 *)
Enumerated == pc \in {"for", "check", "open", "write", "print", "count", "done"}

\* C9 (as claimed): the files processed are exactly the regular files below
\* the root, at any depth, whose name ends in `.js`.
C9_AllJsFiles ==
    Enumerated =>
        Range(files) = {p \in RegularFiles(tree) : EndsWith(Basename(p), JS)}

\* C9 (amended): the entries processed are exactly the entries below the root,
\* at any depth, regular files and directories alike, whose name ends in
\* `.js`, does not begin with a dot and lies under no directory whose name
\* begins with a dot; each is listed once, and at the summary each has been
\* opened once and no other entry has been opened.
C9_VisibleJsEntries ==
    /\ Enumerated =>
           /\ Range(files) =
                  {p \in DOMAIN tree :
                     /\ EndsWith(Basename(p), JS)
                     /\ \A k \in 1..Len(p) : ~IsHidden(p[k])}
           /\ Cardinality(Range(files)) = Len(files)
    /\ pc = "done" =>
           \A p \in DOMAIN tree :
               reads[p] = (IF p \in Range(files) THEN 1 ELSE 0)

\* a tree with a file two directories down, a hidden file, a file in a hidden
\* directory and a directory named like a script was enumerated
C9_Witness ==
    /\ pc = "done"
    /\ {C_JS, H_JS, K_JS, M_JS, N_JS, T_TS} \subseteq DOMAIN tree
    /\ C_JS \in Range(files)

(* C10 *)
\* each of the first two lines holds both literals
BothInBoth(ls) ==
    /\ Len(ls) >= 2
    /\ \A k \in 1..2 :
           /\ Contains(EXPORT_CONST_DYNAMIC, ls[k])
           /\ Contains(USE_CLIENT, ls[k])

\* C10 (as claimed): a run right after a run without errors changes no file,
\* prints no Fixed line and reports a total of 0.
C10_SecondRunIdle ==
    (prev.ran /\ pc = "done") =>
        /\ disk = disk0
        /\ NumLines(out, "Fixed") = 0
        /\ count = 0

\* C10 (amended): a run right after a run without errors changes no file,
\* opens none for writing, prints no Fixed line and counts nothing, provided
\* no file holds both literals in each of its first two lines.
C10_SecondRunIdleUnlessBoth ==
    (prev.ran /\ \A p \in DOMAIN disk0 :
                    ~(Decodable(disk0[p]) /\ BothInBoth(ReadLines(disk0[p])))) =>
        /\ disk = disk0
        /\ openedW = {}
        /\ NumLines(out, "Fixed") = 0
        /\ count = 0
        /\ (pc = "done" => out[Len(out)] = TotalLine(0))

\* the first run repaired a file and the second has come to its summary
C10_Witness ==
    /\ prev.ran /\ prev.count >= 1
    /\ pc = "done"
    /\ out = <<TotalLine(0)>>

====
